---- MODULE Spec2Model ----
(***************************************************************************)
(* Wordle assistant (src/src/main.rs): the constraint state GuessState,    *)
(* the feedback generator process_guess, the quality evaluator and the     *)
(* pruned best-guess search, with the session loop of real_main.           *)
(*                                                                         *)
(* A letter is the number c - b'a' (0..25), a word a sequence of 5 letters *)
(* (positions 1..5 here, 0..4 in the source), a u32 bit set of letters a   *)
(* set of letters, and an f64 quality an exact fraction [num, den].        *)
(***************************************************************************)
EXTENDS Integers, Sequences, FiniteSets, TLC

VARIABLES
    letter_choices,  \* GuessState.letter_choices: per position, the letters allowed
    letter_counts,   \* GuessState.letter_counts: per letter, the range [start, end)
    words,           \* the Vec<Word> behind the caller's slice
    remaining,       \* length of the caller's slice (a prefix of words)
    original,        \* the word list as loaded, before any partitioning
    actual,          \* the word the feedback is generated against
    guessed,         \* the last guessed word
    gwr,             \* the last GuessWordResult
    history,         \* the (guessed, gwr) pairs applied so far in the session
    recommended,     \* the word find_best_guess returned last
    best_quality,    \* best_quality at the end of the last search
    rejected,        \* the candidates the last search abandoned early
    measured,        \* the value quality returned last
    round,           \* number of updates applied
    evaluated,       \* candidates the search in progress has gone through
    last,            \* the operation that ran last
    outcome          \* "ok", "panic" (assert failed) or "error" (Err returned)

vars == <<letter_choices, letter_counts, words, remaining, original, actual,
          guessed, gwr, history, recommended, best_quality, rejected, measured,
          round, evaluated, last, outcome>>

----------------------------------------------------------------------------
(* Bounds of the model *)

MaxGuesses == 2     \* updates applied in one behaviour
MaxWords == 3       \* length of the word list handed to the search
NumLetters == 2     \* letters of the exhaustive feedback-generator inputs
MaxDen == 4         \* largest denominator of the lower bounds tried

----------------------------------------------------------------------------
(* Words and letters *)

WordLen == 5
AlphabetSize == 26

Letters == 0 .. (AlphabetSize - 1)
Positions == 1 .. WordLen

Alphabet ==
    <<"a", "b", "c", "d", "e", "f", "g", "h", "i", "j", "k", "l", "m",
      "n", "o", "p", "q", "r", "s", "t", "u", "v", "w", "x", "y", "z">>

\* c - b'a'
LetterOf(c) == (CHOOSE k \in 1 .. AlphabetSize : Alphabet[k] = c) - 1

\* TryFrom<&str> for Word, on five lowercase letters
ToWord(cs) == [i \in Positions |-> LetterOf(cs[i])]

rotor == ToWord(<<"r", "o", "t", "o", "r">>)
razor == ToWord(<<"r", "a", "z", "o", "r">>)
brood == ToWord(<<"b", "r", "o", "o", "d">>)
proxy == ToWord(<<"p", "r", "o", "x", "y">>)
raise == ToWord(<<"r", "a", "i", "s", "e">>)
bacon == ToWord(<<"b", "a", "c", "o", "n">>)

\* The words guesses, solutions and word lists are drawn from.
Dictionary == {rotor, razor, brood, proxy, raise, bacon}

\* Every word over the first NumLetters letters.
LetterWords == [Positions -> 0 .. (NumLetters - 1)]

GuessLetterResult == {"Green", "Yellow", "Black"}

Count(w, letter) == Cardinality({i \in Positions : w[i] = letter})

MaxOf(x, y) == IF x >= y THEN x ELSE y
MinOf(x, y) == IF x <= y THEN x ELSE y

----------------------------------------------------------------------------
(* GuessState *)

DefaultLetterCount == [start |-> 0, end |-> 6]

DefaultGuessState ==
    [letter_choices |-> [i \in Positions |-> Letters],
     letter_counts |-> [l \in Letters |-> DefaultLetterCount]]

\* Range<u8>::is_empty
IsEmptyRange(lc) == ~(lc.start < lc.end)

YellowOrGreenCount(g, r, letter) ==
    Cardinality({j \in Positions : g[j] = letter /\ r[j] # "Black"})

\* Mutant: Black tightens the upper bound to the confirmed count itself.
NarrowCountsOffByOne(counts, letter, glr, yg) ==
    IF glr = "Black"
    THEN [counts EXCEPT ![letter].end = yg]
    ELSE [counts EXCEPT ![letter].start = yg]

\* The letter_counts assignment of one position.
NarrowCounts(counts, letter, glr, yg) ==
    IF glr = "Black"
    THEN [counts EXCEPT ![letter].end = 1 + yg]
    ELSE [counts EXCEPT ![letter].start = yg]

\* Mutant: a Yellow is treated like a Green.
NarrowChoicesYellowAsGreen(choices, i, letter, glr) ==
    IF glr # "Black"
    THEN [choices EXCEPT ![i] = {letter}]
    ELSE [choices EXCEPT ![i] = @ \ {letter}]

\* Mutant: a Green leaves the position's set as it was.
NarrowChoicesGreenKeeps(choices, i, letter, glr) ==
    IF glr = "Green"
    THEN choices
    ELSE [choices EXCEPT ![i] = @ \ {letter}]

\* The letter_choices assignment of one position.
NarrowChoices(choices, i, letter, glr) ==
    IF glr = "Green"
    THEN [choices EXCEPT ![i] = {letter}]
    ELSE [choices EXCEPT ![i] = @ \ {letter}]

RECURSIVE NarrowLoop(_, _, _, _)
\* The first loop of update, from position i on.
NarrowLoop(s, g, r, i) ==
    IF i > WordLen
    THEN s
    ELSE LET letter == g[i]
             yg == YellowOrGreenCount(g, r, letter)
         IN NarrowLoop(
                [letter_choices |-> NarrowChoices(s.letter_choices, i, letter, r[i]),
                 letter_counts |-> NarrowCounts(s.letter_counts, letter, r[i], yg)],
                g, r, i + 1)

ImpliedLetterCount(choices, letter) ==
    [start |-> Cardinality({i \in Positions : choices[i] = {letter}}),
     end |-> Cardinality({i \in Positions : letter \in choices[i]}) + 1]

\* Mutant: Pass 1 fires on any single-valued range, not only on [0,1).
CombinePassesRemoveSingle(choices, letter, cur) ==
    IF cur.end - cur.start = 1
    THEN [i \in Positions |-> choices[i] \ {letter}]
    ELSE choices

\* Mutant: Pass 1 is missing, a letter confirmed absent stays in the sets.
CombinePassesNoRemoval(choices, letter, cur) ==
    IF cur = [start |-> 0, end |-> 1]
    THEN choices
    ELSE IF /\ cur.end - cur.start = 1
            /\ Cardinality({i \in Positions : letter \in choices[i]}) = cur.start
         THEN [i \in Positions |->
                  IF letter \in choices[i] THEN {letter} ELSE choices[i]]
         ELSE choices

\* Pass 1 and Pass 2 of the combining loop, for one letter.
CombinePasses(choices, letter, cur) ==
    IF cur = [start |-> 0, end |-> 1]
    THEN [i \in Positions |-> choices[i] \ {letter}]
    ELSE IF /\ cur.end - cur.start = 1
            /\ Cardinality({i \in Positions : letter \in choices[i]}) = cur.start
         THEN [i \in Positions |->
                  IF letter \in choices[i] THEN {letter} ELSE choices[i]]
         ELSE choices

RECURSIVE CombineLoop(_, _)
\* The second loop of update over the letters still to visit, lowest first.
\* The result says whether the assert fired.
CombineLoop(s, seen) ==
    IF seen = {}
    THEN [panicked |-> FALSE, state |-> s]
    ELSE LET letter == CHOOSE l \in seen : \A m \in seen : l <= m
             implied == ImpliedLetterCount(s.letter_choices, letter)
             cur == [start |-> MaxOf(s.letter_counts[letter].start, implied.start),
                     end |-> MinOf(s.letter_counts[letter].end, implied.end)]
             counts == [s.letter_counts EXCEPT ![letter] = cur]
         IN IF IsEmptyRange(cur)
            THEN [panicked |-> TRUE,
                  state |-> [letter_choices |-> s.letter_choices,
                             letter_counts |-> counts]]
            ELSE CombineLoop(
                     [letter_choices |-> CombinePasses(s.letter_choices, letter, cur),
                      letter_counts |-> counts],
                     seen \ {letter})

\* GuessState::update (and GuessState::then, which updates a clone).
Update(s, g, r) ==
    CombineLoop(NarrowLoop(s, g, r, 1), {g[i] : i \in Positions})

\* Range<u8>::contains
RangeContains(lc, n) == lc.start <= n /\ n < lc.end

\* Mutant: only the position sets are consulted.
is_word_possible_by_position(s, w) ==
    \A i \in Positions : w[i] \in s.letter_choices[i]

is_word_possible(s, w) ==
    /\ \A i \in Positions : w[i] \in s.letter_choices[i]
    /\ \A l \in Letters :
          IF s.letter_counts[l] = DefaultLetterCount
          THEN TRUE
          ELSE RangeContains(s.letter_counts[l], Count(w, l))

----------------------------------------------------------------------------
(* Feedback generator *)

\* Mutant: among equal letters the later position sorts first.
TupleLessLaterFirst(x, y) == x[1] < y[1] \/ (x[1] = y[1] /\ x[2] > y[2])

TupleLess(x, y) == x[1] < y[1] \/ (x[1] = y[1] /\ x[2] < y[2])

RECURSIVE SweepNoConsume(_, _, _, _, _)
\* Mutant: a match does not consume the occurrence of the actual word.
SweepNoConsume(remaining_guess, remaining_actual, i, j, rv) ==
    IF i > Len(remaining_guess) \/ j > Len(remaining_actual)
    THEN rv
    ELSE IF remaining_guess[i][1] < remaining_actual[j]
         THEN SweepNoConsume(remaining_guess, remaining_actual, i + 1, j, rv)
         ELSE IF remaining_guess[i][1] > remaining_actual[j]
              THEN SweepNoConsume(remaining_guess, remaining_actual, i, j + 1, rv)
              ELSE SweepNoConsume(remaining_guess, remaining_actual, i + 1, j,
                                  [rv EXCEPT ![remaining_guess[i][2]] = "Yellow"])

RECURSIVE Sweep(_, _, _, _, _)
\* The two-pointer loop of process_guess.
Sweep(remaining_guess, remaining_actual, i, j, rv) ==
    IF i > Len(remaining_guess) \/ j > Len(remaining_actual)
    THEN rv
    ELSE IF remaining_guess[i][1] < remaining_actual[j]
         THEN Sweep(remaining_guess, remaining_actual, i + 1, j, rv)
         ELSE IF remaining_guess[i][1] > remaining_actual[j]
              THEN Sweep(remaining_guess, remaining_actual, i, j + 1, rv)
              ELSE Sweep(remaining_guess, remaining_actual, i + 1, j + 1,
                         [rv EXCEPT ![remaining_guess[i][2]] = "Yellow"])

process_guess(g, a) ==
    LET nongreen == SelectSeq([i \in Positions |-> i], LAMBDA i : g[i] # a[i])
        remaining_guess ==
            SortSeq([k \in 1 .. Len(nongreen) |-> <<g[nongreen[k]], nongreen[k]>>],
                    TupleLess)
        remaining_actual ==
            SortSeq([k \in 1 .. Len(nongreen) |-> a[nongreen[k]]],
                    LAMBDA x, y : x < y)
        rv == [i \in Positions |-> IF g[i] = a[i] THEN "Green" ELSE "Black"]
    IN Sweep(remaining_guess, remaining_actual, 1, 1, rv)

----------------------------------------------------------------------------
(* Qualities: the f64 values of the source as exact fractions in lowest terms *)

NoWord == << >>
NoQuality == [num |-> 0, den |-> 1]

RECURSIVE Gcd(_, _)
Gcd(x, y) == IF y = 0 THEN x ELSE Gcd(y, x % y)

Abs(x) == IF x < 0 THEN -x ELSE x

\* n / d for d > 0
Frac(n, d) ==
    LET k == Gcd(Abs(n), d)
    IN [num |-> n \div k, den |-> d \div k]

FracOfInt(n) == [num |-> n, den |-> 1]
FracAdd(x, y) == Frac(x.num * y.den + y.num * x.den, x.den * y.den)
FracMul(x, y) == Frac(x.num * y.num, x.den * y.den)
FracDivInt(x, n) == Frac(x.num, x.den * n)
FracLess(x, y) == x.num * y.den < y.num * x.den
FracLeq(x, y) == x.num * y.den <= y.num * x.den

----------------------------------------------------------------------------
(* Quality evaluator *)

\* Mutant: the numerator counts the words that remain, not those eliminated.
qualityOfRemaining(s, ws) ==
    LET total == Len(ws)
        remains == Cardinality({k \in 1 .. total : is_word_possible(s, ws[k])})
    IN Frac(remains, total - 1)

\* quality, for a list of at least two words
quality(s, ws) ==
    LET total == Len(ws)
        remains == Cardinality({k \in 1 .. total : is_word_possible(s, ws[k])})
    IN Frac(total - remains, total - 1)

\* The asserts on one hypothesis and the quality of its new state; res is what
\* s.then(g, process_guess(g, a)) gave.
HypothesisOf(res, ws, a) ==
    IF res.panicked
    THEN [panicked |-> TRUE, quality |-> FracOfInt(0)]
    ELSE IF ~is_word_possible(res.state, a)
         THEN [panicked |-> TRUE, quality |-> FracOfInt(0)]
         ELSE [panicked |-> FALSE, quality |-> quality(res.state, ws)]

\* What the hypothesis that a is the actual word contributes.
Hypothesis(s, g, ws, a) ==
    HypothesisOf(Update(s, g, process_guess(g, a)), ws, a)

RECURSIVE QualitySum(_, _, _, _, _)
RECURSIVE QualitySumStep(_, _, _, _, _, _)
\* The sum of guess_quality over ws[i ..], added to acc.
QualitySum(s, g, ws, i, acc) ==
    IF i > Len(ws)
    THEN [panicked |-> FALSE, sum |-> acc]
    ELSE QualitySumStep(s, g, ws, i, acc, Hypothesis(s, g, ws, ws[i]))

QualitySumStep(s, g, ws, i, acc, h) ==
    IF h.panicked
    THEN [panicked |-> TRUE, sum |-> acc]
    ELSE QualitySum(s, g, ws, i + 1, FracAdd(acc, h.quality))

\* sum / words.len()
MeanQuality(r, total) ==
    [panicked |-> r.panicked, quality |-> FracDivInt(r.sum, total)]

guess_quality(s, g, ws) ==
    MeanQuality(QualitySum(s, g, ws, 1, FracOfInt(0)), Len(ws))

\* Mutant: the bound forgets the hypotheses still to come.
EarlyRejectIgnoringRest(new_quality, rest, minimum_quality) ==
    FracLess(new_quality, minimum_quality)

\* Mutant: a candidate that can at best equal the bound is abandoned too.
EarlyRejectOnTie(new_quality, rest, minimum_quality) ==
    FracLeq(FracAdd(new_quality, FracOfInt(rest)), minimum_quality)

\* The early-reject test of guess_quality_lower_bound, rest = words.len() - i - 1
EarlyReject(new_quality, rest, minimum_quality) ==
    FracLess(FracAdd(new_quality, FracOfInt(rest)), minimum_quality)

RECURSIVE LowerBoundFold(_, _, _, _, _, _)
RECURSIVE LowerBoundStep(_, _, _, _, _, _, _)
RECURSIVE LowerBoundTest(_, _, _, _, _, _)
\* The try_fold of guess_quality_lower_bound from ws[i] on (i is 1-based).
LowerBoundFold(s, g, ws, minimum_quality, i, cur_quality) ==
    IF i > Len(ws)
    THEN [kind |-> "Some", raw |-> cur_quality]
    ELSE LowerBoundStep(s, g, ws, minimum_quality, i, cur_quality,
                        Hypothesis(s, g, ws, ws[i]))

\* The closure of the try_fold, h being what the hypothesis ws[i] contributes.
LowerBoundStep(s, g, ws, minimum_quality, i, cur_quality, h) ==
    IF h.panicked
    THEN [kind |-> "panic", raw |-> cur_quality]
    ELSE LowerBoundTest(s, g, ws, minimum_quality, i,
                        FracAdd(cur_quality, h.quality))

LowerBoundTest(s, g, ws, minimum_quality, i, new_quality) ==
    IF EarlyReject(new_quality, Len(ws) - i, minimum_quality)
    THEN [kind |-> "None", raw |-> new_quality]
    ELSE LowerBoundFold(s, g, ws, minimum_quality, i + 1, new_quality)

\* The map after the try_fold: raw_quality / total
LowerBoundResult(r, total) ==
    [kind |-> r.kind, quality |-> FracDivInt(r.raw, total)]

guess_quality_lower_bound(s, g, ws, lower_bound) ==
    LowerBoundResult(
        LowerBoundFold(s, g, ws, FracMul(lower_bound, FracOfInt(Len(ws))), 1,
                       FracOfInt(0)),
        Len(ws))

----------------------------------------------------------------------------
(* Best-guess search *)

\* Mutant: the word on the right is copied over the one on the left.
SwapOverwrites(data, l, r) == [data EXCEPT ![l] = data[r]]

Swap(data, l, r) == [data EXCEPT ![l] = data[r], ![r] = data[l]]

RECURSIVE SkipLeft(_, _, _)
SkipLeft(s, data, l) ==
    IF l <= Len(data) /\ is_word_possible(s, data[l])
    THEN SkipLeft(s, data, l + 1)
    ELSE l

RECURSIVE SkipRight(_, _, _)
SkipRight(s, data, r) ==
    IF r > 1 /\ ~is_word_possible(s, data[r])
    THEN SkipRight(s, data, r - 1)
    ELSE r

RECURSIVE PartitionLoop(_, _, _, _)
\* partition::partition, in place with two indices: the possible words come
\* first; count is the length of that first part.
PartitionLoop(s, data, l, r) ==
    LET l2 == SkipLeft(s, data, l)
        r2 == SkipRight(s, data, r)
    IN IF l2 >= r2
       THEN [data |-> data, count |-> l2 - 1]
       ELSE PartitionLoop(s, Swap(data, l2, r2), l2, r2)

\* GuessState::filter_word_list
filter_word_list(s, data) ==
    IF Len(data) = 0
    THEN [data |-> data, count |-> 0]
    ELSE PartitionLoop(s, data, 1, Len(data))

RECURSIVE SearchLoop(_, _, _, _, _, _)
RECURSIVE SearchStep(_, _, _, _, _, _, _)
\* The filter_map(..).last() of find_best_guess from ws[i] on: best is the
\* running best_quality, word the last candidate that was not abandoned.
SearchLoop(s, ws, i, best, word, pruned) ==
    IF i > Len(ws)
    THEN [panicked |-> word = NoWord, word |-> word, best_quality |-> best,
          rejected |-> pruned]
    ELSE SearchStep(s, ws, i, best, word, pruned,
                    guess_quality_lower_bound(s, ws[i], ws, best))

\* The closure of the filter_map, r being what guess_quality_lower_bound gave
\* for the candidate ws[i].
SearchStep(s, ws, i, best, word, pruned, r) ==
    IF r.kind = "panic"
    THEN [panicked |-> TRUE, word |-> word, best_quality |-> best,
          rejected |-> pruned]
    ELSE IF r.kind = "None"
         THEN SearchLoop(s, ws, i + 1, best, word, pruned \cup {ws[i]})
         ELSE SearchLoop(s, ws, i + 1, r.quality, ws[i], pruned)

\* The result of the search among two or more remaining words.
SearchResult(part, r) ==
    [result |-> IF r.panicked THEN "panic" ELSE "Ok",
     data |-> part.data, count |-> part.count, word |-> r.word,
     best_quality |-> r.best_quality, rejected |-> r.rejected]

\* find_best_guess once the slice is partitioned.
SearchPartitioned(s, part) ==
    IF part.count = 0
    THEN [result |-> "Err", data |-> part.data, count |-> 0, word |-> NoWord,
          best_quality |-> NoQuality, rejected |-> {}]
    ELSE IF part.count = 1
         THEN [result |-> "Ok", data |-> part.data, count |-> 1,
               word |-> part.data[1], best_quality |-> NoQuality,
               rejected |-> {}]
         ELSE SearchResult(
                  part,
                  SearchLoop(s, SubSeq(part.data, 1, part.count), 1,
                             FracOfInt(0), NoWord, {}))

\* find_best_guess on the slice all_words: the result ("Ok", "Err" or "panic"),
\* the slice as partitioned, the length the caller's slice is left with, the
\* word returned and the final best_quality.
find_best_guess(s, all_words) ==
    SearchPartitioned(s, filter_word_list(s, all_words))

----------------------------------------------------------------------------
(* State of the model *)

CurrentState == [letter_choices |-> letter_choices, letter_counts |-> letter_counts]

\* The caller's slice
Slice == SubSeq(words, 1, remaining)

\* Everything but the constraint state and the inputs, before any operation.
InitRest ==
    /\ guessed = NoWord
    /\ gwr = << >>
    /\ history = << >>
    /\ recommended = NoWord
    /\ best_quality = NoQuality
    /\ rejected = {}
    /\ measured = NoQuality
    /\ round = 0
    /\ evaluated = 0
    /\ last = "init"
    /\ outcome = "ok"

InitDefaultState ==
    /\ letter_choices = DefaultGuessState.letter_choices
    /\ letter_counts = DefaultGuessState.letter_counts

----------------------------------------------------------------------------
(* Updates alone: SpecUpdate *)

InitUpdate ==
    /\ InitDefaultState
    /\ words = << >>
    /\ remaining = 0
    /\ original = << >>
    /\ actual = NoWord
    /\ InitRest

\* What an update leaves in the model's state, res being its result.
StoreUpdate(g, r, res) ==
    /\ guessed' = g
    /\ gwr' = r
    /\ round' = round + 1
    /\ IF res.panicked
       THEN /\ outcome' = "panic"
            /\ UNCHANGED <<letter_choices, letter_counts>>
       ELSE /\ outcome' = "ok"
            /\ letter_choices' = res.state.letter_choices
            /\ letter_counts' = res.state.letter_counts

\* The effect of state.update(g, r) on the model's state.
ApplyUpdate(g, r) == StoreUpdate(g, r, Update(CurrentState, g, r))

\* guess_quality's step for one hypothesis: s.then(g, process_guess(g, a)) for a
\* word a that is possible under s.
Then(g, a) ==
    /\ outcome = "ok"
    /\ round < MaxGuesses
    /\ is_word_possible(CurrentState, a)
    /\ actual' = a
    /\ last' = "then"
    /\ ApplyUpdate(g, process_guess(g, a))
    /\ UNCHANGED <<words, remaining, original, history, recommended,
                   best_quality, rejected, measured, evaluated>>

\* state.update(g, r) with the feedback of a trace, which nothing ties to the
\* earlier feedback: r is the feedback of g against any word.
UpdateTrace(g, a) ==
    /\ outcome = "ok"
    /\ round < MaxGuesses
    /\ actual' = a
    /\ last' = "update"
    /\ ApplyUpdate(g, process_guess(g, a))
    /\ UNCHANGED <<words, remaining, original, history, recommended,
                   best_quality, rejected, measured, evaluated>>

NextUpdate ==
    \/ \E g \in Dictionary, a \in Dictionary : Then(g, a)
    \/ \E g \in Dictionary, a \in Dictionary : UpdateTrace(g, a)

SpecUpdate == InitUpdate /\ [][NextUpdate]_vars

----------------------------------------------------------------------------
(* The feedback generator alone: SpecFeedback *)

InitFeedback ==
    /\ InitDefaultState
    /\ words = << >>
    /\ remaining = 0
    /\ original = << >>
    /\ actual \in LetterWords \cup Dictionary
    /\ guessed \in LetterWords \cup Dictionary
    /\ gwr = << >>
    /\ history = << >>
    /\ recommended = NoWord
    /\ best_quality = NoQuality
    /\ rejected = {}
    /\ measured = NoQuality
    /\ round = 0
    /\ evaluated = 0
    /\ last = "init"
    /\ outcome = "ok"

Score ==
    /\ last = "init"
    /\ gwr' = process_guess(guessed, actual)
    /\ last' = "process_guess"
    /\ UNCHANGED <<letter_choices, letter_counts, words, remaining, original,
                   actual, guessed, history, recommended, best_quality,
                   rejected, measured, round, evaluated, outcome>>

NextFeedback == Score

SpecFeedback == InitFeedback /\ [][NextFeedback]_vars

----------------------------------------------------------------------------
(* The search alone: SpecSearch *)

Range(seq) == {seq[k] : k \in 1 .. Len(seq)}

\* The sequences that order the words of seq (all distinct) in some way.
Orderings(seq) ==
    {p \in [1 .. Len(seq) -> Range(seq)] : Range(p) = Range(seq)}

\* Lists of n distinct dictionary words.
ListsOfLen(n) == {l \in [1 .. n -> Dictionary] : Cardinality(Range(l)) = n}

\* The word lists of at most MaxWords distinct dictionary words.
WordLists == UNION {ListsOfLen(n) : n \in 0 .. MaxWords}

\* The initial state and the states one update of it returns.
PriorStates ==
    {DefaultGuessState} \cup
    {Update(DefaultGuessState, g, process_guess(g, a)).state :
        g \in Dictionary, a \in Dictionary}

InitSearch ==
    /\ \E s \in PriorStates :
          /\ letter_choices = s.letter_choices
          /\ letter_counts = s.letter_counts
    /\ original \in WordLists
    /\ words = original
    /\ remaining = Len(original)
    /\ actual = NoWord
    /\ InitRest

\* What a search leaves in the model's state, r being its result.
StoreSearch(r) ==
    /\ words' = r.data \o SubSeq(words, remaining + 1, Len(words))
    /\ remaining' = r.count
    /\ recommended' = r.word
    /\ best_quality' = r.best_quality
    /\ rejected' = r.rejected
    /\ outcome' = CASE r.result = "Ok" -> "ok"
                    [] r.result = "Err" -> "error"
                    [] OTHER -> "panic"

\* The effect of find_best_guess(&state, &mut words) on the model's state.
ApplySearch(s) == StoreSearch(find_best_guess(s, SubSeq(words, 1, remaining)))

\* One call of find_best_guess.
Search ==
    /\ last = "init"
    /\ last' = "find_best_guess"
    /\ ApplySearch(CurrentState)
    /\ UNCHANGED <<letter_choices, letter_counts, original, actual, guessed,
                   gwr, history, measured, round, evaluated>>

\* One call of quality on a list of at least two words.
Measure ==
    /\ last = "init"
    /\ Len(original) >= 2
    /\ last' = "quality"
    /\ measured' = quality(CurrentState, original)
    /\ UNCHANGED <<letter_choices, letter_counts, words, remaining, original,
                   actual, guessed, gwr, history, recommended, best_quality,
                   rejected, round, evaluated, outcome>>

NextSearch == Search \/ Measure

SpecSearch == InitSearch /\ [][NextSearch]_vars

----------------------------------------------------------------------------
(* The bounded evaluator alone: SpecBound *)

\* The lower bounds tried: the fractions of [0, 1] of denominator up to MaxDen.
LowerBounds == UNION {{Frac(n, d) : n \in 0 .. d} : d \in 1 .. MaxDen}

\* What guess_quality_lower_bound(s, g, words, lb) returned, in the model's
\* state: Some(q) as measured = q, None as g abandoned, a failed assert as a
\* panic. best_quality holds the bound that was passed, as in the search.
StoreBound(g, lb, r) ==
    /\ guessed' = g
    /\ best_quality' = lb
    /\ measured' = IF r.kind = "Some" THEN r.quality ELSE NoQuality
    /\ rejected' = IF r.kind = "None" THEN {g} ELSE {}
    /\ outcome' = IF r.kind = "panic" THEN "panic" ELSE "ok"

\* One call of guess_quality_lower_bound on a slice as find_best_guess passes
\* it (two words or more, all possible under the state), for any guessed word
\* and any lower bound.
Bound ==
    /\ last = "init"
    /\ Len(original) >= 2
    /\ \A k \in 1 .. Len(original) : is_word_possible(CurrentState, original[k])
    /\ last' = "guess_quality_lower_bound"
    /\ \E g \in Dictionary, lb \in LowerBounds :
          StoreBound(g, lb,
                     guess_quality_lower_bound(CurrentState, g, original, lb))
    /\ UNCHANGED <<letter_choices, letter_counts, words, remaining, original,
                   actual, gwr, history, recommended, round, evaluated>>

NextBound == Bound

SpecBound == InitSearch /\ [][NextBound]_vars

----------------------------------------------------------------------------
(* The search, one candidate at a time: SpecCandidates *)

\* What the start of find_best_guess leaves, part being the partitioned slice:
\* Err on an empty slice, the word itself when one remains, else best_quality
\* = 0.0 and the iterator before the first candidate.
StorePartition(part) ==
    /\ words' = part.data \o SubSeq(words, remaining + 1, Len(words))
    /\ remaining' = part.count
    /\ recommended' = IF part.count = 1 THEN part.data[1] ELSE NoWord
    /\ outcome' = IF part.count = 0 THEN "error" ELSE "ok"
    /\ last' = IF part.count >= 2 THEN "filter_word_list" ELSE "find_best_guess"

\* find_best_guess up to the search proper.
Partition ==
    /\ last = "init"
    /\ StorePartition(filter_word_list(CurrentState, Slice))
    /\ best_quality' = FracOfInt(0)
    /\ rejected' = {}
    /\ evaluated' = 0
    /\ UNCHANGED <<letter_choices, letter_counts, original, actual, guessed,
                   gwr, history, measured, round>>

\* The closure of the filter_map for the candidate c, r being what
\* guess_quality_lower_bound gave for it.
StoreCandidate(c, r) ==
    /\ outcome' = IF r.kind = "panic" THEN "panic" ELSE "ok"
    /\ rejected' = IF r.kind = "None" THEN rejected \cup {c} ELSE rejected
    /\ best_quality' = IF r.kind = "Some" THEN r.quality ELSE best_quality
    /\ recommended' = IF r.kind = "Some" THEN c ELSE recommended

\* One step of the iterator: the next candidate is evaluated against the
\* running best_quality.
Candidate ==
    /\ last \in {"filter_word_list", "candidate"}
    /\ outcome = "ok"
    /\ evaluated < remaining
    /\ evaluated' = evaluated + 1
    /\ last' = "candidate"
    /\ StoreCandidate(Slice[evaluated + 1],
                      guess_quality_lower_bound(CurrentState, Slice[evaluated + 1],
                                                Slice, best_quality))
    /\ UNCHANGED <<letter_choices, letter_counts, words, remaining, original,
                   actual, guessed, gwr, history, measured, round>>

\* .last().unwrap() once the iterator is exhausted
Return ==
    /\ last \in {"filter_word_list", "candidate"}
    /\ outcome = "ok"
    /\ evaluated = remaining
    /\ last' = "find_best_guess"
    /\ outcome' = IF recommended = NoWord THEN "panic" ELSE "ok"
    /\ UNCHANGED <<letter_choices, letter_counts, words, remaining, original,
                   actual, guessed, gwr, history, recommended, best_quality,
                   rejected, measured, round, evaluated>>

NextCandidates == Partition \/ Candidate \/ Return

SpecCandidates == InitSearch /\ [][NextCandidates]_vars

----------------------------------------------------------------------------
(* A session with consistent feedback: Spec *)

\* histogram[i][letter], summed over the positions of w
HeuristicScore(ws, w) ==
    LET histogram(i) == Cardinality({k \in 1 .. Len(ws) : ws[k][i] = w[i]})
    IN histogram(1) + histogram(2) + histogram(3) + histogram(4) + histogram(5)

\* The orders sort_unstable_by_key may leave the list in: scores descending,
\* words of equal score in any order.
presort_words_by_heuristic(ws) ==
    {p \in Orderings(ws) :
        \A k \in 1 .. (Len(p) - 1) :
            HeuristicScore(ws, p[k]) >= HeuristicScore(ws, p[k + 1])}

\* The start of the first trace: the loaded list as presorted (the initial
\* search of real_main, under the default state, moves no word), one of its
\* words being the solution the feedback comes from.
Init ==
    /\ InitDefaultState
    /\ \E loaded \in WordLists :
          /\ Len(loaded) >= 1
          /\ original \in presort_words_by_heuristic(loaded)
    /\ words = original
    /\ remaining = Len(original)
    /\ actual \in Range(original)
    /\ InitRest

\* The update of a round and, unless its assert fired, the search after it.
RoundAfterUpdate(g, r, res) ==
    /\ guessed' = g
    /\ gwr' = r
    /\ history' = Append(history, <<g, r>>)
    /\ round' = round + 1
    /\ IF res.panicked
       THEN /\ outcome' = "panic"
            /\ UNCHANGED <<letter_choices, letter_counts, words, remaining,
                           recommended, best_quality, rejected>>
       ELSE /\ letter_choices' = res.state.letter_choices
            /\ letter_counts' = res.state.letter_counts
            /\ ApplySearch(res.state)

RoundWith(g, r) == RoundAfterUpdate(g, r, Update(CurrentState, g, r))

\* One iteration of the loop over a trace in real_main: the update with the
\* feedback of g against the solution, then find_best_guess on the caller's
\* slice. A panic in update ends the session before the search.
Round(g) ==
    /\ outcome = "ok"
    /\ round < MaxGuesses
    /\ last' = "round"
    /\ RoundWith(g, process_guess(g, actual))
    /\ UNCHANGED <<original, actual, measured, evaluated>>

Next == \E g \in Dictionary : Round(g)

Spec == Init /\ [][Next]_vars

----------------------------------------------------------------------------
(* A session in which the player plays the recommended word: SpecPlay *)

batch == ToWord(<<"b", "a", "t", "c", "h">>)
catch == ToWord(<<"c", "a", "t", "c", "h">>)
hatch == ToWord(<<"h", "a", "t", "c", "h">>)
latch == ToWord(<<"l", "a", "t", "c", "h">>)

\* The words the lists of these sessions are drawn from: words that differ in
\* one letter only, which no guess among them tells apart, and two others.
PlayWords == {batch, catch, hatch, latch, rotor, bacon}

\* The word lists of at most MaxWords distinct words of PlayWords.
PlayLists ==
    UNION {{l \in [1 .. n -> PlayWords] : Cardinality(Range(l)) = n} :
              n \in 1 .. MaxWords}

\* The start of a session: the loaded list as presorted, one of its words
\* being the solution.
InitPlay ==
    /\ InitDefaultState
    /\ \E loaded \in PlayLists :
          original \in presort_words_by_heuristic(loaded)
    /\ words = original
    /\ remaining = Len(original)
    /\ actual \in Range(original)
    /\ InitRest

\* The initial guess of real_main: find_best_guess under the default state.
InitialGuess ==
    /\ last = "init"
    /\ last' = "initial guess"
    /\ ApplySearch(CurrentState)
    /\ UNCHANGED <<letter_choices, letter_counts, original, actual, guessed,
                   gwr, history, measured, round, evaluated>>

\* One round in which the guess is the word recommended last and the feedback
\* that of the solution, while more than one candidate remains.
Play ==
    /\ last \in {"initial guess", "round"}
    /\ outcome = "ok"
    /\ remaining > 1
    /\ round <= MaxWords
    /\ last' = "round"
    /\ RoundWith(recommended, process_guess(recommended, actual))
    /\ UNCHANGED <<original, actual, measured, evaluated>>

NextPlay == InitialGuess \/ Play

\* What a step of NextPlay does to the position in the session; it is
\* possible exactly when a step of NextPlay is.
Advance ==
    \/ /\ last = "init"
       /\ last' = "initial guess"
       /\ round' = round
    \/ /\ last \in {"initial guess", "round"}
       /\ outcome = "ok"
       /\ remaining > 1
       /\ round <= MaxWords
       /\ last' = "round"
       /\ round' = round + 1

\* The session runs on while a step is possible: the calls are synchronous
\* and every one of them returns.
SpecPlay == InitPlay /\ [][NextPlay]_vars /\ WF_<<last, round>>(Advance)

----------------------------------------------------------------------------
(* Claims about updates, under SpecUpdate *)

NonBlackCount(g, r, letter) ==
    Cardinality({i \in Positions : g[i] = letter /\ r[i] # "Black"})

\* C1: soundness of propagation. From any state reached by updates, for any
\* guessed word and any word a that is possible under the state, the update
\* s.then(g, process_guess(g, a)) does not trip the non-empty-range assert and
\* a is still possible under the resulting state.
C1_Soundness ==
    last = "then" =>
        /\ outcome = "ok"
        /\ is_word_possible(CurrentState, actual)

\* A second hypothesis applied on top of an earlier update, with a Yellow and a
\* Black in its feedback.
C1_Witness ==
    /\ last = "then"
    /\ round = 2
    /\ outcome = "ok"
    /\ guessed # actual
    /\ \E i \in Positions : gwr[i] = "Yellow"
    /\ \E i \in Positions : gwr[i] = "Black"

Absent == "Black"
Exact == "Green"

RaiseFeedback == <<Absent, Exact, Absent, Absent, Absent>>

AfterRaise ==
    /\ round = 1
    /\ outcome = "ok"
    /\ guessed = raise
    /\ gwr = RaiseFeedback

\* C8 as stated: after update("raise", [Absent, Exact, Absent, Absent, Absent])
\* on the initial state, position 1 (the second) holds exactly {a}, 'a' is
\* excluded from positions 0, 2, 3 and 4, and r, i, s, e are each excluded from
\* the position where they were marked Absent.
C8_RaiseAsStated ==
    AfterRaise =>
        /\ letter_choices[2] = {LetterOf("a")}
        /\ \A i \in Positions \ {2} : LetterOf("a") \notin letter_choices[i]
        /\ \A i \in Positions \ {2} : raise[i] \notin letter_choices[i]

\* C8 amended: after that update position 1 holds exactly {a}; r, i, s, e are
\* each excluded from the position where they were marked Absent (and, being
\* confirmed absent with range [0,1), from every position); 'a', whose range is
\* [1,6), is still allowed at positions 0, 2, 3 and 4.
C8_Raise ==
    AfterRaise =>
        /\ letter_choices[2] = {LetterOf("a")}
        /\ \A i \in Positions \ {2} : LetterOf("a") \in letter_choices[i]
        /\ letter_counts[LetterOf("a")] = [start |-> 1, end |-> 6]
        /\ \A i \in Positions \ {2} :
              /\ raise[i] \notin letter_choices[i]
              /\ letter_counts[raise[i]] = [start |-> 0, end |-> 1]
              /\ \A j \in Positions : raise[i] \notin letter_choices[j]

C8_Witness == AfterRaise /\ last = "update" /\ actual = bacon

\* C10: an update that would leave an empty position candidate set or an empty
\* count range never returns normally, whatever the feedback.
C10_HaltsOnEmpty ==
    (last \in {"then", "update"} /\ outcome = "ok") =>
        /\ \A i \in Positions : letter_choices[i] # {}
        /\ \A l \in Letters : ~IsEmptyRange(letter_counts[l])

----------------------------------------------------------------------------
(* Claims about the feedback generator, under SpecFeedback *)

\* C9: for every guessed and actual word and every letter c, the number of
\* positions of the guess holding c that process_guess marks Green or Yellow is
\* at most min(occurrences of c in the guess, occurrences of c in the actual
\* word).
C9_MatchedAtMostMin ==
    last = "process_guess" =>
        \A c \in Letters :
            NonBlackCount(guessed, gwr, c)
                <= MinOf(Count(guessed, c), Count(actual, c))

\* A letter twice in the guess and once in the actual word: one occurrence is
\* matched and another is Black.
C9_Witness ==
    /\ last = "process_guess"
    /\ \E c \in Letters :
          /\ Count(guessed, c) >= 2
          /\ Count(actual, c) = 1
          /\ NonBlackCount(guessed, gwr, c) = 1
          /\ \E i \in Positions : guessed[i] = c /\ gwr[i] = "Black"

----------------------------------------------------------------------------
(* Claims about the search, under SpecSearch *)

RECURSIVE ExhaustiveLoop(_, _, _, _, _)
\* The unpruned search from ws[i] on: guess_quality for every candidate, in
\* list order, the last candidate of maximal quality being kept.
ExhaustiveLoop(s, ws, i, best, word) ==
    IF i > Len(ws)
    THEN [word |-> word, quality |-> best]
    ELSE LET q == guess_quality(s, ws[i], ws).quality
         IN IF word = NoWord \/ FracLeq(best, q)
            THEN ExhaustiveLoop(s, ws, i + 1, q, ws[i])
            ELSE ExhaustiveLoop(s, ws, i + 1, best, word)

ExhaustiveSearch(s, ws) == ExhaustiveLoop(s, ws, 1, FracOfInt(0), NoWord)

\* C2: the pruning bound never changes the argmax. When at least two words of
\* the list are possible under the state, the word find_best_guess returns and
\* its final best_quality are those of the unpruned search that evaluates
\* guess_quality for every candidate in the same order and keeps the last
\* candidate of maximal expected quality.
C2_PruningKeepsArgmax ==
    (last = "find_best_guess" /\ remaining >= 2) =>
        /\ outcome = "ok"
        /\ recommended = ExhaustiveSearch(CurrentState, Slice).word
        /\ best_quality = ExhaustiveSearch(CurrentState, Slice).quality

\* A search over three possible words that abandoned a candidate early.
C2_Witness ==
    /\ last = "find_best_guess"
    /\ outcome = "ok"
    /\ remaining = 3
    /\ rejected # {}
    /\ FracLess(FracOfInt(0), best_quality)

\* C6 as stated: for any state and any two orderings of the same candidate
\* list, find_best_guess returns the same word.
C6_SameWordAnyOrder ==
    (last = "find_best_guess" /\ outcome = "ok") =>
        \A p \in Orderings(original) :
            find_best_guess(CurrentState, p).word = recommended

\* r, the result of a search of the same words in another order, ends as the
\* recorded search did: same outcome, same remaining words, same best_quality,
\* and a word of that expected quality.
SameEnding(r) ==
    /\ (r.result = "Ok") = (outcome = "ok")
    /\ (r.result = "Err") = (outcome = "error")
    /\ r.count = remaining
    /\ Range(SubSeq(r.data, 1, remaining)) = Range(Slice)
    /\ r.best_quality = best_quality
    /\ remaining >= 2 =>
          guess_quality(CurrentState, r.word, Slice).quality = best_quality

\* C6 amended: for any state and any two orderings of the same candidate list,
\* find_best_guess ends the same way, leaves the same set of remaining words
\* and reaches the same final best_quality, and the word it returns has that
\* expected quality, the maximum over the candidates; only which of the words
\* tied for the maximum is returned depends on the order.
C6_SameQualityAnyOrder ==
    last = "find_best_guess" =>
        /\ \A p \in Orderings(original) :
              SameEnding(find_best_guess(CurrentState, p))
        /\ remaining >= 2 =>
              \A k \in 1 .. remaining :
                  FracLeq(guess_quality(CurrentState, Slice[k], Slice).quality,
                          best_quality)

\* A search among three possible words, not all of the same expected quality,
\* for which another ordering returns another word.
C6_Witness ==
    /\ last = "find_best_guess"
    /\ outcome = "ok"
    /\ remaining = 3
    /\ rejected # {}
    /\ \E p \in Orderings(original) :
          find_best_guess(CurrentState, p).word # recommended

InUnit(q) == 0 <= q.num /\ q.num <= q.den

PossibleIn(s, ws) == {k \in 1 .. Len(ws) : is_word_possible(s, ws[k])}

\* C7 as stated: quality lies in [0, 1] for every state and every list of more
\* than one word, also when no word of the list is possible under the state.
C7_QualityInUnit ==
    last = "quality" => InUnit(measured)

\* C7 amended: for every state and every list of T > 1 words, quality lies in
\* [0, 1] when at least one word of the list is possible under the state; when
\* none is, it is T / (T - 1), which exceeds 1.
C7_QualityInUnitWhenPossible ==
    last = "quality" =>
        IF PossibleIn(CurrentState, original) # {}
        THEN InUnit(measured)
        ELSE /\ measured = Frac(Len(original), Len(original) - 1)
             /\ ~InUnit(measured)

\* A list of three words of which the state leaves two possible.
C7_Witness ==
    /\ last = "quality"
    /\ Len(original) = 3
    /\ Cardinality(PossibleIn(CurrentState, original)) = 2
    /\ measured = Frac(1, 2)

----------------------------------------------------------------------------
(* Claims about a session with consistent feedback, under Spec *)

\* The words of the original list that give, for every guess played so far,
\* the feedback that was received.
ConsistentWords ==
    {w \in Range(original) :
        \A k \in 1 .. Len(history) :
            process_guess(history[k][1], w) = history[k][2]}

\* The search succeeded and left exactly the words of the set cw, once each,
\* the solution among them.
ListIs(cw) ==
    /\ outcome = "ok"
    /\ Range(Slice) = cw
    /\ remaining = Cardinality(cw)
    /\ actual \in Range(Slice)

\* C3: in a session that starts from the initial state with a list of distinct
\* words and feeds back process_guess(guess, solution) for one solution of the
\* list, the candidate list after each step is exactly the set of words of the
\* original list that are consistent with every feedback so far; the solution
\* is never removed and find_best_guess never reports that no word remains.
C3_ListIsConsistentSet ==
    last = "round" => ListIs(ConsistentWords)

\* Two guesses, the first of them not a word of the list, after which two of
\* three words are left.
C3_Witness ==
    /\ last = "round"
    /\ round = 2
    /\ Len(original) = 3
    /\ remaining = 2
    /\ history[1][1] \notin Range(original)

\* C4: in every state reached by updates with consistent feedback, each of the
\* five position candidate sets is non-empty and every letter's count range
\* has min < max (no update trips the assert on the way).
C4_NonEmpty ==
    /\ outcome = "ok"
    /\ \A i \in Positions : letter_choices[i] # {}
    /\ \A l \in Letters : letter_counts[l].start < letter_counts[l].end

\* Two updates after which a position is fixed to one letter, another letter
\* is confirmed absent and a third is known to occur at least twice.
C4_Witness ==
    /\ round = 2
    /\ \E i \in Positions : Cardinality(letter_choices[i]) = 1
    /\ \E l \in Letters : letter_counts[l] = [start |-> 0, end |-> 1]
    /\ \E l \in Letters : letter_counts[l].start >= 2

\* C5: with consistent feedback every update tightens the state: each position
\* set after the update is a subset of what it was, no letter's lower bound
\* decreases and no letter's upper bound increases.
C5_Monotone ==
    [][(last' = "round" /\ outcome' = "ok") =>
          /\ \A i \in Positions : letter_choices'[i] \subseteq letter_choices[i]
          /\ \A l \in Letters :
                /\ letter_counts[l].start <= letter_counts'[l].start
                /\ letter_counts'[l].end <= letter_counts[l].end]_vars

----------------------------------------------------------------------------
(* Claims about the steps of one search, under SpecCandidates *)

KeptIffAtLeast(c, q) ==
    IF FracLeq(best_quality, q)
    THEN /\ best_quality' = q
         /\ recommended' = c
         /\ rejected' = rejected
    ELSE /\ best_quality' = best_quality
         /\ recommended' = recommended
         /\ rejected' = rejected \cup {c}

----------------------------------------------------------------------------
(* Further claims about a session with consistent feedback, under Spec *)

\* C12: after every step of a session with consistent feedback the candidate
\* list is the original list filtered against the current state alone: a word
\* of the original list is in the candidate list if and only if
\* is_word_possible holds for it under the current state.
C12_ListIsFilterOfOriginal ==
    (last = "round" /\ outcome = "ok") =>
        Range(Slice) = {w \in Range(original) : is_word_possible(CurrentState, w)}

----------------------------------------------------------------------------
(* Claims about the bounded evaluator, under SpecBound *)

\* Every hypothesis h of the list keeps its own word possible (no assert fires)
\* and has a quality of at most 1.
AtMostOne(h) == ~h.panicked /\ FracLeq(h.quality, FracOfInt(1))

HypothesesAtMostOne ==
    \A k \in 1 .. Len(original) :
        AtMostOne(Hypothesis(CurrentState, guessed, original, original[k]))

\* The recorded result agrees with gq, the unrestricted guess_quality: None
\* only when gq is below the bound (and so below the minimum_quality of the
\* debug assertion), Some(q) only with q = gq.
BoundAgrees(gq) ==
    /\ ~gq.panicked
    /\ IF rejected = {guessed}
       THEN /\ FracLess(gq.quality, best_quality)
            /\ FracLess(gq.quality,
                        FracMul(best_quality, FracOfInt(Len(original))))
       ELSE measured = gq.quality

\* C13: for every state, every list of at least two words all possible under
\* it, every guessed word and every lower bound in [0, 1],
\* guess_quality_lower_bound returns None only if the unrestricted
\* guess_quality is strictly less than the bound, and Some(q) only with q the
\* unrestricted guess_quality; each per-hypothesis quality is at most 1.
C13_BoundSound ==
    last = "guess_quality_lower_bound" =>
        /\ outcome = "ok"
        /\ HypothesesAtMostOne
        /\ BoundAgrees(guess_quality(CurrentState, guessed, original))

\* A guess abandoned on a list of three words although its expected quality
\* is not zero and the bound is below 1.
C13_Witness ==
    /\ last = "guess_quality_lower_bound"
    /\ Len(original) = 3
    /\ rejected = {guessed}
    /\ FracLess(best_quality, FracOfInt(1))
    /\ FracLess(FracOfInt(0), guess_quality(CurrentState, guessed, original).quality)

----------------------------------------------------------------------------
(* Further claims about the feedback generator, under SpecFeedback *)

\* The occurrences of letter c of the actual word a that no Green uses.
NonGreenOccurrences(g, a, c) ==
    Cardinality({i \in Positions : a[i] = c /\ g[i] # a[i]})

RECURSIVE ReferenceScan(_, _, _, _, _)
\* The reference scoring from position i on: pool[c] is the number of
\* occurrences of c in the actual word not yet consumed.
ReferenceScan(g, a, i, pool, rv) ==
    IF i > WordLen
    THEN rv
    ELSE IF g[i] = a[i]
         THEN ReferenceScan(g, a, i + 1, pool, [rv EXCEPT ![i] = "Green"])
         ELSE IF pool[g[i]] > 0
              THEN ReferenceScan(g, a, i + 1, [pool EXCEPT ![g[i]] = @ - 1],
                                 [rv EXCEPT ![i] = "Yellow"])
              ELSE ReferenceScan(g, a, i + 1, pool, [rv EXCEPT ![i] = "Black"])

\* Standard left-to-right scoring of the guess g against the actual word a.
ReferenceScore(g, a) ==
    ReferenceScan(g, a, 1, [c \in Letters |-> NonGreenOccurrences(g, a, c)],
                  [i \in Positions |-> "Black"])

\* C14: process_guess agrees with the left-to-right reference scoring for
\* every guessed/actual pair: identical letters are Green, then a non-Green
\* position is Yellow exactly when an unconsumed non-Green occurrence of its
\* letter remains in the actual word, scanning from the left; so the Yellows
\* of a repeated letter are its leftmost non-Green occurrences, and a word
\* scored against itself is all Green.
C14_AgreesWithReference ==
    last = "process_guess" =>
        /\ gwr = ReferenceScore(guessed, actual)
        /\ guessed = actual => \A i \in Positions : gwr[i] = "Green"
        /\ \A i \in Positions, j \in Positions :
              (i < j /\ guessed[i] = guessed[j] /\ gwr[j] = "Yellow")
                  => gwr[i] # "Black"

\* A repeated letter of the guess whose earlier occurrence is Yellow and whose
\* later occurrence is Black.
C14_Witness ==
    /\ last = "process_guess"
    /\ \E i \in Positions, j \in Positions :
          /\ i < j
          /\ guessed[i] = guessed[j]
          /\ gwr[i] = "Yellow"
          /\ gwr[j] = "Black"

----------------------------------------------------------------------------
(* Further claims about the search, under SpecSearch *)

\* The number of times the word w occurs in the list ws
Occurrences(ws, w) == Cardinality({k \in 1 .. Len(ws) : ws[k] = w})

\* C15: find_best_guess only permutes the caller's list (same words, as often,
\* none added). On success the caller's slice is exactly the words of the
\* input that are possible under the state, the returned word is one of them,
\* and a single remaining word is returned without any quality evaluation;
\* when no word remains the result is the error and no word.
C15_FrameOfSearch ==
    last = "find_best_guess" =>
        /\ Len(words) = Len(original)
        /\ \A w \in Range(original) \cup Range(words) :
              Occurrences(words, w) = Occurrences(original, w)
        /\ \A k \in 1 .. Len(words) :
              is_word_possible(CurrentState, words[k]) <=> k <= remaining
        /\ outcome = (IF remaining = 0 THEN "error" ELSE "ok")
        /\ IF remaining = 0
           THEN recommended = NoWord
           ELSE /\ recommended \in Range(Slice)
                /\ is_word_possible(CurrentState, recommended)
        /\ remaining = 1 =>
              /\ recommended = Slice[1]
              /\ best_quality = NoQuality
              /\ rejected = {}

\* A search that moved words: of three words the first is not possible and
\* the other two are.
C15_Witness ==
    /\ last = "find_best_guess"
    /\ Len(original) = 3
    /\ remaining = 2
    /\ words # original
    /\ ~is_word_possible(CurrentState, original[1])

----------------------------------------------------------------------------
(* Claims about the state of a session, under Spec *)

\* C16: in every state reached by updates with consistent feedback, a letter
\* whose stored count range is [0,1) is in no position's candidate set.
C16_AbsentLetterNowhere ==
    \A l \in Letters :
        letter_counts[l] = [start |-> 0, end |-> 1] =>
            \A i \in Positions : l \notin letter_choices[i]

\* After two updates, a letter confirmed absent by the first guess, and not
\* guessed again, is still in no position set.
C16_Witness ==
    /\ round = 2
    /\ outcome = "ok"
    /\ \E l \in Letters :
          /\ letter_counts[l] = [start |-> 0, end |-> 1]
          /\ l \in Range(history[1][1])
          /\ l \notin Range(history[2][1])
          /\ \A i \in Positions : l \notin letter_choices[i]

----------------------------------------------------------------------------
(* Claims about a session that plays the recommended word, under SpecPlay *)

\* Exactly one candidate remains and it is the solution.
Solved == remaining = 1 /\ Slice = <<actual>>

\* C17: when the player plays the recommended word and the feedback is that
\* of the solution, the candidate list strictly shrinks at every step whose
\* guess is not the solution, no step fails or empties the list, the number
\* of guesses never exceeds the number of words of the list, and the session
\* eventually reaches the solved state.
C17_SessionSolves ==
    /\ [][(last' = "round" /\ guessed' # actual) => remaining' < remaining]_vars
    /\ [](outcome = "ok" /\ round <= Len(original))
    /\ <>Solved

\* A session on three words solved only after two guesses, the first of which
\* was not the solution.
C17_Witness ==
    /\ Solved
    /\ Len(original) = 3
    /\ round = 2
    /\ history[1][1] # actual

====
